---- MODULE Spec2Model ----
(***************************************************************************)
(* A model of s3lite: the presigned-URL authorizer (app/auth.py), the      *)
(* request handlers and the startup (app/main.py, app/db.py) and the blob  *)
(* locator and backend probe (app/storage.py).                             *)
(*                                                                         *)
(* Strings are sequences of tokens.  "/" and "\n" are tokens of their own, *)
(* every other token stands for a run of ordinary characters.              *)
(***************************************************************************)
EXTENDS Integers, Sequences, FiniteSets, TLC

VARIABLES
    boot,       \* the startup of the process: its position and its probes
    env,        \* the process environment read at import time
    now,        \* int(time.time())
    buckets,    \* the rows of table "buckets" (their names)
    objects,    \* the rows of table "objects", by (bucket, object_key)
    blobs,      \* the blob backend: locator -> stored bytes
    rq,         \* per request slot: the handler invocation and its position
    orm,        \* per request slot: the state of the row its session loaded
    client,     \* AuthSpec, PresignSpec: the inputs of the client
    url,        \* PresignSpec: the answer of presign_object
    aresp       \* AuthSpec, PresignSpec: the last answer of authorize

vars == <<boot, env, now, buckets, objects, blobs, rq, orm, client, url, aresp>>

-----------------------------------------------------------------------------
(* Bounds *)

\* The clock runs over 0..MaxTime.
MaxTime == 12

-----------------------------------------------------------------------------
(* Strings *)

NL == "\n"
SLASH == "/"
EMPTY == <<>>

\* str.upper() on the method names that occur.
Upper(m) ==
    CASE m = "get" -> "GET"
      [] m = "put" -> "PUT"
      [] OTHER -> m

Digit(d) == <<"0", "1", "2", "3", "4", "5", "6", "7", "8", "9">>[d + 1]

\* f"{expires}" for an int: the decimal digits, "-" first when negative.
RECURSIVE IntToStr(_)
IntToStr(n) ==
    IF n < 0 THEN <<"-">> \o IntToStr(0 - n)
    ELSE IF n < 10 THEN <<Digit(n)>>
    ELSE IntToStr(n \div 10) \o <<Digit(n % 10)>>

IsDigit(c) == c \in {"0", "1", "2", "3", "4", "5", "6", "7", "8", "9"}

DigitVal(c) == CHOOSE d \in 0..9 : Digit(d) = c

RECURSIVE DigitsVal(_)
DigitsVal(s) ==
    IF s = <<>> THEN 0
    ELSE 10 * DigitsVal(SubSeq(s, 1, Len(s) - 1)) + DigitVal(s[Len(s)])

RECURSIVE StripLeft(_, _)
StripLeft(s, c) == IF s # <<>> /\ s[1] = c THEN StripLeft(Tail(s), c) ELSE s

RECURSIVE StripRight(_, _)
StripRight(s, c) ==
    IF s # <<>> /\ s[Len(s)] = c THEN StripRight(SubSeq(s, 1, Len(s) - 1), c) ELSE s

\* int(expires_str): surrounding blanks are dropped, one sign is allowed, then
\* one or more decimal digits; anything else raises ValueError.
ParseInt(s) ==
    LET t == StripRight(StripLeft(s, " "), " ")
        signed == t # <<>> /\ t[1] \in {"+", "-"}
        d == IF signed THEN Tail(t) ELSE t
        ok == d # <<>> /\ \A i \in 1..Len(d) : IsDigit(d[i])
    IN  IF ~ok THEN [ok |-> FALSE, val |-> 0]
        ELSE [ok |-> TRUE,
              val |-> IF signed /\ t[1] = "-" THEN 0 - DigitsVal(d) ELSE DigitsVal(d)]

-----------------------------------------------------------------------------
(* Configuration: module globals read from the environment at import time *)

NOT_SET == ""

\* auth.py: API_KEY = os.environ.get("S3LITE_API_KEY", "")
API_KEY == env.S3LITE_API_KEY

\* auth.py: PRESIGN_SECRET = os.environ.get("PRESIGN_SECRET", "")
PRESIGN_SECRET == env.PRESIGN_SECRET

\* main.py: PRESIGN_SECRET = os.environ.get("PRESIGN_SECRET", "")
main_PRESIGN_SECRET == env.PRESIGN_SECRET

Envs == [S3LITE_API_KEY : {NOT_SET, "key"}, PRESIGN_SECRET : {NOT_SET, "secret"}]

-----------------------------------------------------------------------------
(* Signer *)

\* hmac.new(secret, msg, sha256).hexdigest(): the digest names its key and its
\* message, so that two digests are equal only for equal keys and messages.
HmacHex(secret, msg) == [hex |-> TRUE, k |-> secret, m |-> msg]

\* The value of a query parameter "sig" that is absent or empty.
NoSig == [hex |-> FALSE, k |-> "", m |-> <<>>]

\* f"{method.upper()}\n{path}\n{expires}\n{ct}"
Message(method, path, expires, ct) ==
    <<Upper(method)>> \o <<NL>> \o path \o <<NL>> \o IntToStr(expires) \o <<NL>> \o ct

\* auth.py _sign
_sign(method, path, expires, ct) ==
    HmacHex(PRESIGN_SECRET, Message(method, path, expires, ct))

\* _presign_sig leaving the content type out of the signed message.
_presign_sig_NoCt(method, path, expires, ct) ==
    HmacHex(main_PRESIGN_SECRET, Message(method, path, expires, EMPTY))

\* main.py _presign_sig
_presign_sig(method, path, expires, ct) ==
    HmacHex(main_PRESIGN_SECRET, Message(method, path, expires, ct))

\* hmac.compare_digest
compare_digest(a, b) == a = b

-----------------------------------------------------------------------------
(* Authorizer *)

OK == [status |-> 200, detail |-> "ok"]
HTTPException(code, why) == [status |-> code, detail |-> why]

\* A header that was not sent (x_api_key is None).
NoHeader == "<None>"

\* f"/buckets/{bucket_name}/objects/{object_key}", the path of an object route.
ObjectPath(bucket_name, object_key) ==
    <<SLASH, "buckets", SLASH>> \o bucket_name \o <<SLASH, "objects", SLASH>> \o object_key

\* validate_presign with one second of grace after the expiry.
validate_presign_Grace(r, ct, time) ==
    LET sig == r.sig
        expires_str == r.expires
        signed_ct == r.ct
        parsed == ParseInt(expires_str)
        expires == parsed.val
    IN  IF PRESIGN_SECRET = NOT_SET
            THEN HTTPException(500, "PRESIGN_SECRET not configured")
        ELSE IF ~sig.hex \/ expires_str = EMPTY
            THEN HTTPException(401, "Missing presign parameters")
        ELSE IF ~parsed.ok
            THEN HTTPException(401, "Invalid expires")
        ELSE IF time > expires + 1
            THEN HTTPException(401, "Presigned URL expired")
        ELSE IF signed_ct # EMPTY /\ signed_ct # ct
            THEN HTTPException(401, "Content-Type mismatch for presigned URL")
        ELSE IF ~compare_digest(_sign(r.method, r.path, expires, signed_ct), sig)
            THEN HTTPException(401, "Invalid signature")
        ELSE OK

\* auth.py validate_presign, for a request r = [method, path, sig, expires, ct,
\* x_api_key] and the ct argument its caller passes.
validate_presign(r, ct, time) ==
    LET sig == r.sig
        expires_str == r.expires
        signed_ct == r.ct
        parsed == ParseInt(expires_str)
        expires == parsed.val
    IN  IF PRESIGN_SECRET = NOT_SET
            THEN HTTPException(500, "PRESIGN_SECRET not configured")
        ELSE IF ~sig.hex \/ expires_str = EMPTY
            THEN HTTPException(401, "Missing presign parameters")
        ELSE IF ~parsed.ok
            THEN HTTPException(401, "Invalid expires")
        ELSE IF time > expires
            THEN HTTPException(401, "Presigned URL expired")
        ELSE IF signed_ct # EMPTY /\ signed_ct # ct
            THEN HTTPException(401, "Content-Type mismatch for presigned URL")
        ELSE IF ~compare_digest(_sign(r.method, r.path, expires, signed_ct), sig)
            THEN HTTPException(401, "Invalid signature")
        ELSE OK

\* Whether authorize takes the presigned branch: qp.get("sig") and qp.get("expires").
IsPresigned(r) == r.sig.hex /\ r.expires # EMPTY

\* authorize falling back to the static key when the presigned check fails.
authorize_FallsBack(r, time) ==
    IF IsPresigned(r) /\ validate_presign(r, r.ct, time) = OK
        THEN OK
    ELSE IF API_KEY = NOT_SET
        THEN HTTPException(500, "S3LITE_API_KEY not configured")
    ELSE IF r.x_api_key # API_KEY
        THEN HTTPException(401, "Missing or invalid API key")
    ELSE OK

\* authorize comparing the header with the key without asking whether a key is
\* configured.
authorize_NoConfigCheck(r, time) ==
    IF IsPresigned(r)
        THEN validate_presign(r, r.ct, time)
    ELSE IF r.x_api_key # API_KEY
        THEN HTTPException(401, "Missing or invalid API key")
    ELSE OK

\* auth.py authorize
authorize(r, time) ==
    IF IsPresigned(r)
        THEN validate_presign(r, r.ct, time)
    ELSE IF API_KEY = NOT_SET
        THEN HTTPException(500, "S3LITE_API_KEY not configured")
    ELSE IF r.x_api_key # API_KEY
        THEN HTTPException(401, "Missing or invalid API key")
    ELSE OK

-----------------------------------------------------------------------------
(* Blob locator and content hash *)

\* storage.py object_locator: f"{bucket_name}/{object_key.lstrip('/')}"
object_locator(bucket_name, object_key) ==
    bucket_name \o <<SLASH>> \o StripLeft(object_key, SLASH)

\* hashlib.sha256: the running hash is the bytes fed so far, the digest names
\* them, so that two digests are equal only for equal contents.
sha_update(acc, chunk) == acc \o chunk
hexdigest(acc) == [sha256 |-> acc]

\* main.py: file.read(1024 * 1024), with the chunk size scaled down to 2 bytes.
CHUNK_SIZE == 2

Min(a, b) == IF a < b THEN a ELSE b

\* What the reads of a stream return: reads[k] is the number of bytes the read
\* returns that finds k bytes left, when that many are left.  A read returns
\* between one byte and CHUNK_SIZE bytes; the reads of UploadFile return all
\* they are asked for.
ReadSchedules(bytes) == [1..Len(bytes) -> 1..CHUNK_SIZE]
FullReads(bytes) == [k \in 1..Len(bytes) |-> CHUNK_SIZE]

\* The read loop keeping the length of the last chunk as the size.
RECURSIVE ReadLoop_LastChunk(_, _, _)
ReadLoop_LastChunk(reads, st, rest) ==
    LET n == IF rest = <<>> THEN 0 ELSE Min(reads[Len(rest)], Len(rest))
        chunk == SubSeq(rest, 1, n)
    IN  IF chunk = <<>> THEN st
        ELSE ReadLoop_LastChunk(reads,
                      [sha |-> sha_update(st.sha, chunk),
                       size |-> Len(chunk),
                       tmp |-> st.tmp \o chunk],
                      SubSeq(rest, n + 1, Len(rest)))

\* main.py upload_object, the read loop: [sha, size, tmp] after the stream
\* `rest` has been consumed chunk by chunk, the reads returning what `reads`
\* says.
RECURSIVE ReadLoop(_, _, _)
ReadLoop(reads, st, rest) ==
    LET n == IF rest = <<>> THEN 0 ELSE Min(reads[Len(rest)], Len(rest))
        chunk == SubSeq(rest, 1, n)
    IN  IF chunk = <<>> THEN st
        ELSE ReadLoop(reads,
                      [sha |-> sha_update(st.sha, chunk),
                       size |-> st.size + Len(chunk),
                       tmp |-> st.tmp \o chunk],
                      SubSeq(rest, n + 1, Len(rest)))

\* sha = hashlib.sha256(), size = 0 and the empty temporary file.
NewStream == [sha |-> <<>>, size |-> 0, tmp |-> <<>>]

Streamed(bytes) == ReadLoop(FullReads(bytes), NewStream, bytes)

-----------------------------------------------------------------------------
(* The values requests are made of *)

TextPlain == <<"text/plain">>
Json == <<"application/json">>
OctetStream == <<"application/octet-stream">>

\* An uploaded file part: its bytes and its content type (EMPTY when it has none).
Files == { [bytes |-> <<1, 2, 3>>, content_type |-> TextPlain],
           [bytes |-> <<7>>, content_type |-> EMPTY] }
NoFile == [bytes |-> <<>>, content_type |-> EMPTY]

B1 == <<"bk1">>
BucketNames == {B1}
\* Two keys that differ only by a leading slash.
Keys == {<<"x">>, <<SLASH, "x">>}

\* The request slots: at most this many handler invocations run at a time.
Slots == {"r1", "r2"}

\* The headers head_object and download_object set from the row they loaded.
ResponseHeaders(obj) ==
    [Content_Length |-> IntToStr(obj.size),
     ETag |-> obj.checksum_sha256,
     X_Checksum_Sha256 |-> obj.checksum_sha256]

\* No such headers.
NoDigest == [sha256 |-> <<"none">>]
NoHeaders == [Content_Length |-> EMPTY, ETag |-> NoDigest, X_Checksum_Sha256 |-> NoDigest]

Idle ==
    [kind |-> "none", pc |-> "idle", bucket |-> EMPTY, key |-> EMPTY,
     overwrite |-> TRUE, file |-> NoFile, status |-> 0, detail |-> "",
     wrote |-> FALSE, headers |-> NoHeaders]

Running(p) == rq[p].pc \notin {"idle", "done"}

\* A request as the handlers see it.
Request(method, bucket, key, sig, expires, ct, x_api_key, overwrite, file) ==
    [method |-> method, bucket |-> bucket, key |-> key,
     path |-> ObjectPath(bucket, key),
     sig |-> sig, expires |-> expires, ct |-> ct, x_api_key |-> x_api_key,
     overwrite |-> overwrite, file |-> file]

Invocation(r, pc) ==
    [kind |-> r.method, pc |-> pc, bucket |-> r.bucket, key |-> r.key,
     overwrite |-> r.overwrite, file |-> r.file, status |-> 0, detail |-> "",
     wrote |-> FALSE, headers |-> NoHeaders]

\* The request ends with answer e; the slot keeps what was asked and the answer.
Respond(inv, e) ==
    [inv EXCEPT !.pc = "done", !.status = e.status, !.detail = e.detail,
                !.overwrite = TRUE, !.file = NoFile]

Remove(f, x) == [y \in DOMAIN f \ {x} |-> f[y]]
Put(f, x, v) == (x :> v) @@ f

Pair(inv) == <<inv.bucket, inv.key>>

-----------------------------------------------------------------------------
(* Startup *)

\* db.py wait_for_db(max_attempts=30), storage.py wait_for_s3(max_attempts=30)
DB_MAX_ATTEMPTS == 30
S3_MAX_ATTEMPTS == 30

\* The process as it is launched: startup() has not run, nothing was probed.
Launched ==
    [pc |-> "wait_for_db", db_probes |-> 0, db_ok |-> FALSE,
     s3_probes |-> 0, s3_ok |-> FALSE]

\* A process whose startup() has returned after one probe of each backend.
Booted ==
    [pc |-> "accepting", db_probes |-> 1, db_ok |-> TRUE,
     s3_probes |-> 1, s3_ok |-> TRUE]

\* wait_for_db, one turn of the loop: SELECT 1 succeeds and the function
\* returns, or it raises, the loop sleeps, and after the last turn the function
\* raises RuntimeError.
ProbeDb ==
    /\ boot.pc = "wait_for_db" /\ boot.db_probes < DB_MAX_ATTEMPTS
    /\ \/ boot' = [boot EXCEPT !.db_probes = @ + 1, !.db_ok = TRUE, !.pc = "create_all"]
       \/ boot' = [boot EXCEPT !.db_probes = @ + 1,
                               !.pc = IF boot.db_probes + 1 = DB_MAX_ATTEMPTS
                                        THEN "aborted" ELSE "wait_for_db"]
    /\ UNCHANGED <<env, now, buckets, objects, blobs, rq, orm, client, url, aresp>>

\* startup line 33: Base.metadata.create_all, which may raise.
CreateAll ==
    /\ boot.pc = "create_all"
    /\ \/ boot' = [boot EXCEPT !.pc = "s3_client"]
       \/ boot' = [boot EXCEPT !.pc = "aborted"]
    /\ UNCHANGED <<env, now, buckets, objects, blobs, rq, orm, client, url, aresp>>

\* wait_for_s3, s3 = s3_client(): raises RuntimeError when the MinIO variables
\* are not set.
S3Client ==
    /\ boot.pc = "s3_client"
    /\ \/ boot' = [boot EXCEPT !.pc = "wait_for_s3"]
       \/ boot' = [boot EXCEPT !.pc = "aborted"]
    /\ UNCHANGED <<env, now, buckets, objects, blobs, rq, orm, client, url, aresp>>

\* ProbeS3 going on to ensure_bucket_exists when the last probe has failed.
ProbeS3_GoesOn ==
    /\ boot.pc = "wait_for_s3" /\ boot.s3_probes < S3_MAX_ATTEMPTS
    /\ \/ boot' = [boot EXCEPT !.s3_probes = @ + 1, !.s3_ok = TRUE,
                               !.pc = "ensure_bucket_exists"]
       \/ boot' = [boot EXCEPT !.s3_probes = @ + 1,
                               !.pc = IF boot.s3_probes + 1 = S3_MAX_ATTEMPTS
                                        THEN "ensure_bucket_exists" ELSE "wait_for_s3"]
    /\ UNCHANGED <<env, now, buckets, objects, blobs, rq, orm, client, url, aresp>>

\* wait_for_s3, one turn of the loop: list_buckets succeeds and the function
\* returns, or it raises, the loop sleeps, and after the last turn the function
\* raises RuntimeError.
ProbeS3 ==
    /\ boot.pc = "wait_for_s3" /\ boot.s3_probes < S3_MAX_ATTEMPTS
    /\ \/ boot' = [boot EXCEPT !.s3_probes = @ + 1, !.s3_ok = TRUE,
                               !.pc = "ensure_bucket_exists"]
       \/ boot' = [boot EXCEPT !.s3_probes = @ + 1,
                               !.pc = IF boot.s3_probes + 1 = S3_MAX_ATTEMPTS
                                        THEN "aborted" ELSE "wait_for_s3"]
    /\ UNCHANGED <<env, now, buckets, objects, blobs, rq, orm, client, url, aresp>>

\* ensure_bucket_exists: head_bucket, and create_bucket on ClientError; either
\* may raise.  When it returns, startup() returns and the server takes requests.
EnsureBucketExists ==
    /\ boot.pc = "ensure_bucket_exists"
    /\ \/ boot' = [boot EXCEPT !.pc = "accepting"]
       \/ boot' = [boot EXCEPT !.pc = "aborted"]
    /\ UNCHANGED <<env, now, buckets, objects, blobs, rq, orm, client, url, aresp>>

-----------------------------------------------------------------------------
(* Handlers *)

\* Admit without the content-type check of upload_object.
Admit_NoCtCheck(r, time) == authorize(r, time)

\* The dependency authorize and, for an upload, the check of main.py lines
\* 88-90, which touch no shared state but the clock: the answer that ends the
\* request there, or OK.
Admit(r, time) ==
    LET a == authorize(r, time)
        signed_ct == r.ct
    IN  IF a # OK THEN a
        ELSE IF r.method = "PUT" /\ signed_ct # EMPTY /\ r.file.content_type # signed_ct
            THEN HTTPException(401, "Content-Type mismatch for presigned URL")
        ELSE OK

\* A request arrives in slot p of a process that has started up: FastAPI
\* resolves the dependencies, then enters the handler.
Begin(p, r) ==
    LET a == Admit(r, now)
    IN  /\ boot.pc = "accepting"
        /\ ~Running(p)
        /\ rq' = [rq EXCEPT ![p] =
                IF a # OK THEN Respond(Invocation(r, "done"), a)
                ELSE Invocation(r, "query")]
        /\ orm' = [orm EXCEPT ![p] = "none"]
        /\ UNCHANGED <<boot, env, now, buckets, objects, blobs>>

\* UploadQuery without the overwrite=false rejection.
UploadQuery_NoConflictCheck(p) ==
    LET inv == rq[p]
        found == Pair(inv) \in DOMAIN objects
    IN  /\ inv.kind = "PUT" /\ inv.pc = "query"
        /\ IF inv.bucket \notin buckets
             THEN /\ rq' = [rq EXCEPT ![p] = Respond(inv, HTTPException(404, "Bucket not found"))]
                  /\ UNCHANGED orm
           ELSE   /\ rq' = [rq EXCEPT ![p].pc = "write"]
                  /\ orm' = [orm EXCEPT ![p] = IF found THEN "persistent" ELSE "none"]
        /\ UNCHANGED <<boot, env, now, buckets, objects, blobs, client, url, aresp>>

\* upload_object lines 92-102: the bucket and the existing row are looked up.
UploadQuery(p) ==
    LET inv == rq[p]
        found == Pair(inv) \in DOMAIN objects
    IN  /\ inv.kind = "PUT" /\ inv.pc = "query"
        /\ IF inv.bucket \notin buckets
             THEN /\ rq' = [rq EXCEPT ![p] = Respond(inv, HTTPException(404, "Bucket not found"))]
                  /\ UNCHANGED orm
           ELSE IF found /\ ~inv.overwrite
             THEN /\ rq' = [rq EXCEPT ![p] =
                        Respond(inv, HTTPException(409, "Object already exists (overwrite=false)"))]
                  /\ UNCHANGED orm
           ELSE   /\ rq' = [rq EXCEPT ![p].pc = "write"]
                  /\ orm' = [orm EXCEPT ![p] = IF found THEN "persistent" ELSE "none"]
        /\ UNCHANGED <<boot, env, now, buckets, objects, blobs, client, url, aresp>>

\* UploadWrite with the failure of upload_fileobj swallowed: the handler goes on
\* to the commit.
UploadWrite_SwallowFailure(p) ==
    LET inv == rq[p]
        locator == object_locator(inv.bucket, inv.key)
        st == Streamed(inv.file.bytes)
    IN  /\ inv.kind = "PUT" /\ inv.pc = "write"
        /\ \/ /\ blobs' = Put(blobs, locator, st.tmp)
              /\ rq' = [rq EXCEPT ![p].pc = "commit", ![p].wrote = TRUE]
           \/ /\ rq' = [rq EXCEPT ![p].pc = "commit"]
              /\ UNCHANGED blobs
        /\ UNCHANGED <<boot, env, now, buckets, objects, orm, client, url, aresp>>

\* upload_object lines 104-122: the body is read and hashed, then written to
\* the backend at the locator; upload_fileobj may raise.
UploadWrite(p) ==
    LET inv == rq[p]
        locator == object_locator(inv.bucket, inv.key)
        st == Streamed(inv.file.bytes)
    IN  /\ inv.kind = "PUT" /\ inv.pc = "write"
        /\ \/ /\ blobs' = Put(blobs, locator, st.tmp)
              /\ rq' = [rq EXCEPT ![p].pc = "commit", ![p].wrote = TRUE]
           \/ /\ rq' = [rq EXCEPT ![p] = Respond(inv, HTTPException(500, "blob write failed"))]
              /\ UNCHANGED blobs
        /\ UNCHANGED <<boot, env, now, buckets, objects, orm, client, url, aresp>>

\* The row upload_object writes.
NewRow(inv) ==
    LET st == Streamed(inv.file.bytes)
    IN  [size |-> st.size,
         checksum_sha256 |-> hexdigest(st.sha),
         content_type |-> IF inv.file.content_type # EMPTY
                            THEN inv.file.content_type ELSE OctetStream]

\* upload_object lines 124-144: the row is inserted (no row was found) or the
\* loaded row is updated; db.commit may raise, and it does raise when the insert
\* meets a row of the same key or the loaded row is gone.
UploadCommit(p) ==
    LET inv == rq[p]
        present == Pair(inv) \in DOMAIN objects
        can == IF orm[p] = "none" THEN ~present ELSE orm[p] = "persistent"
    IN  /\ inv.kind = "PUT" /\ inv.pc = "commit"
        /\ \/ /\ can
              /\ objects' = Put(objects, Pair(inv), NewRow(inv))
              /\ rq' = [rq EXCEPT ![p] = Respond(inv, OK)]
           \/ /\ rq' = [rq EXCEPT ![p] = Respond(inv, HTTPException(500, "db commit failed"))]
              /\ UNCHANGED objects
        /\ UNCHANGED <<boot, env, now, buckets, blobs, orm, client, url, aresp>>

\* DeleteQuery deleting the blob at the locator before it looks the row up.
DeleteQuery_BlobFirst(p) ==
    LET inv == rq[p]
        locator == object_locator(inv.bucket, inv.key)
    IN  /\ inv.kind = "DELETE" /\ inv.pc = "query"
        /\ IF inv.bucket \notin buckets
             THEN /\ rq' = [rq EXCEPT ![p] = Respond(inv, HTTPException(404, "Bucket not found"))]
                  /\ UNCHANGED <<orm, blobs>>
           ELSE IF Pair(inv) \notin DOMAIN objects
             THEN /\ rq' = [rq EXCEPT ![p] = Respond(inv, HTTPException(404, "Object not found"))]
                  /\ blobs' = Remove(blobs, locator)
                  /\ UNCHANGED orm
           ELSE   /\ rq' = [rq EXCEPT ![p].pc = "blob"]
                  /\ orm' = [orm EXCEPT ![p] = "persistent"]
                  /\ UNCHANGED blobs
        /\ UNCHANGED <<boot, env, now, buckets, objects, client, url, aresp>>

\* delete_object lines 212-222.
DeleteQuery(p) ==
    LET inv == rq[p]
    IN  /\ inv.kind = "DELETE" /\ inv.pc = "query"
        /\ IF inv.bucket \notin buckets
             THEN /\ rq' = [rq EXCEPT ![p] = Respond(inv, HTTPException(404, "Bucket not found"))]
                  /\ UNCHANGED orm
           ELSE IF Pair(inv) \notin DOMAIN objects
             THEN /\ rq' = [rq EXCEPT ![p] = Respond(inv, HTTPException(404, "Object not found"))]
                  /\ UNCHANGED orm
           ELSE   /\ rq' = [rq EXCEPT ![p].pc = "blob"]
                  /\ orm' = [orm EXCEPT ![p] = "persistent"]
        /\ UNCHANGED <<boot, env, now, buckets, objects, blobs, client, url, aresp>>

\* DeleteBlob with the failure of s3.delete_object swallowed: the handler goes
\* on to delete the row.
DeleteBlob_SwallowFailure(p) ==
    LET inv == rq[p]
        locator == object_locator(inv.bucket, inv.key)
    IN  /\ inv.kind = "DELETE" /\ inv.pc = "blob"
        /\ \/ /\ blobs' = Remove(blobs, locator)
              /\ rq' = [rq EXCEPT ![p].pc = "commit", ![p].wrote = TRUE]
           \/ /\ rq' = [rq EXCEPT ![p].pc = "commit"]
              /\ UNCHANGED blobs
        /\ UNCHANGED <<boot, env, now, buckets, objects, orm, client, url, aresp>>

\* delete_object lines 224-226: the blob is deleted (deleting a missing blob
\* succeeds); s3.delete_object may raise.
DeleteBlob(p) ==
    LET inv == rq[p]
        locator == object_locator(inv.bucket, inv.key)
    IN  /\ inv.kind = "DELETE" /\ inv.pc = "blob"
        /\ \/ /\ blobs' = Remove(blobs, locator)
              /\ rq' = [rq EXCEPT ![p].pc = "commit", ![p].wrote = TRUE]
           \/ /\ rq' = [rq EXCEPT ![p] = Respond(inv, HTTPException(500, "blob delete failed"))]
              /\ UNCHANGED blobs
        /\ UNCHANGED <<boot, env, now, buckets, objects, orm, client, url, aresp>>

\* DeleteCommit without db.delete(obj): the commit has nothing to write.
DeleteCommit_KeepsRow(p) ==
    LET inv == rq[p]
    IN  /\ inv.kind = "DELETE" /\ inv.pc = "commit"
        /\ \/ rq' = [rq EXCEPT ![p] = Respond(inv, [status |-> 204, detail |-> "ok"])]
           \/ rq' = [rq EXCEPT ![p] = Respond(inv, HTTPException(500, "db commit failed"))]
        /\ UNCHANGED <<boot, env, now, buckets, objects, blobs, orm, client, url, aresp>>

\* delete_object lines 228-230: the loaded row is deleted; db.commit may raise.
\* Every other session that holds the row then holds a row that is gone.
DeleteCommit(p) ==
    LET inv == rq[p]
    IN  /\ inv.kind = "DELETE" /\ inv.pc = "commit"
        /\ \/ /\ objects' = IF orm[p] = "persistent" THEN Remove(objects, Pair(inv)) ELSE objects
              /\ orm' = [q \in Slots |->
                           IF orm[p] = "persistent" /\ orm[q] = "persistent"
                              /\ Pair(rq[q]) = Pair(inv)
                           THEN "stale" ELSE orm[q]]
              /\ rq' = [rq EXCEPT ![p] = Respond(inv, [status |-> 204, detail |-> "ok"])]
           \/ /\ rq' = [rq EXCEPT ![p] = Respond(inv, HTTPException(500, "db commit failed"))]
              /\ UNCHANGED <<objects, orm>>
        /\ UNCHANGED <<boot, env, now, buckets, blobs, client, url, aresp>>

\* download_object lines 181-191 and 203-207: the bucket and the row are looked
\* up; the headers are those of the row as loaded.
DownloadQuery(p) ==
    LET inv == rq[p]
    IN  /\ inv.kind = "GET" /\ inv.pc = "query"
        /\ IF inv.bucket \notin buckets
             THEN /\ rq' = [rq EXCEPT ![p] = Respond(inv, HTTPException(404, "Bucket not found"))]
                  /\ UNCHANGED orm
           ELSE IF Pair(inv) \notin DOMAIN objects
             THEN /\ rq' = [rq EXCEPT ![p] = Respond(inv, HTTPException(404, "Object not found"))]
                  /\ UNCHANGED orm
           ELSE   /\ rq' = [rq EXCEPT ![p].pc = "read",
                                      ![p].headers = ResponseHeaders(objects[Pair(inv)])]
                  /\ orm' = [orm EXCEPT ![p] = "persistent"]
        /\ UNCHANGED <<boot, env, now, buckets, objects, blobs, client, url, aresp>>

\* download_object lines 193-208: s3.get_object raises when the blob is missing,
\* and may raise otherwise.
DownloadRead(p) ==
    LET inv == rq[p]
        locator == object_locator(inv.bucket, inv.key)
    IN  /\ inv.kind = "GET" /\ inv.pc = "read"
        /\ \/ /\ locator \in DOMAIN blobs
              /\ rq' = [rq EXCEPT ![p] = Respond(inv, OK)]
           \/ /\ rq' = [rq EXCEPT ![p] =
                        Respond([inv EXCEPT !.headers = NoHeaders],
                                HTTPException(500, "blob read failed"))]
        /\ UNCHANGED <<boot, env, now, buckets, objects, blobs, orm, client, url, aresp>>

\* head_object lines 160-177.
HeadObject(p) ==
    LET inv == rq[p]
    IN  /\ inv.kind = "HEAD" /\ inv.pc = "query"
        /\ IF inv.bucket \notin buckets
             THEN /\ rq' = [rq EXCEPT ![p] = Respond(inv, HTTPException(404, "Bucket not found"))]
                  /\ UNCHANGED orm
           ELSE IF Pair(inv) \notin DOMAIN objects
             THEN /\ rq' = [rq EXCEPT ![p] = Respond(inv, HTTPException(404, "Object not found"))]
                  /\ UNCHANGED orm
           ELSE   /\ rq' = [rq EXCEPT ![p] =
                        Respond([inv EXCEPT !.headers = ResponseHeaders(objects[Pair(inv)])], OK)]
                  /\ orm' = [orm EXCEPT ![p] = "persistent"]
        /\ UNCHANGED <<boot, env, now, buckets, objects, blobs, client, url, aresp>>

\* CreateBucket on a table without the unique constraint on name: the insert of
\* a name that is there is committed and answered 201.
CreateBucket_NoUniqueName(p) ==
    LET inv == rq[p]
    IN  /\ inv.kind = "POST" /\ inv.pc = "query"
        /\ \/ /\ buckets' = buckets \cup {inv.bucket}
              /\ rq' = [rq EXCEPT ![p] = Respond(inv, [status |-> 201, detail |-> "ok"])]
           \/ /\ rq' = [rq EXCEPT ![p] = Respond(inv, HTTPException(500, "db commit failed"))]
              /\ UNCHANGED buckets
        /\ UNCHANGED <<boot, env, now, objects, blobs, orm, client, url, aresp>>

\* create_bucket lines 43-51: the row is inserted; the commit raises
\* IntegrityError when a row of that name is there (models.py: unique=True),
\* which is answered 409, and it may raise for any other reason.
CreateBucket(p) ==
    LET inv == rq[p]
    IN  /\ inv.kind = "POST" /\ inv.pc = "query"
        /\ \/ /\ inv.bucket \notin buckets
              /\ buckets' = buckets \cup {inv.bucket}
              /\ rq' = [rq EXCEPT ![p] = Respond(inv, [status |-> 201, detail |-> "ok"])]
           \/ /\ inv.bucket \in buckets
              /\ rq' = [rq EXCEPT ![p] = Respond(inv, HTTPException(409, "Bucket already exists"))]
              /\ UNCHANGED buckets
           \/ /\ rq' = [rq EXCEPT ![p] = Respond(inv, HTTPException(500, "db commit failed"))]
              /\ UNCHANGED buckets
        /\ UNCHANGED <<boot, env, now, objects, blobs, orm, client, url, aresp>>

-----------------------------------------------------------------------------
(* Spec: concurrent clients that hold the static API key or no credential *)

NoClient == [none |-> TRUE]
NoUrl == [status |-> 0, method |-> "", path |-> EMPTY, expires |-> EMPTY,
          sig |-> NoSig, ct |-> EMPTY]
NoResp == [status |-> 0, detail |-> ""]
\* An answer of authorize and the time it was given at.
Answer(e, time) == [status |-> e.status, detail |-> e.detail, at |-> time]

Headers == {NoHeader, "key"}

\* A client sends PUT /buckets/{bucket}/objects/{key}?overwrite=... with a file.
StartUpload(p) ==
    \E bucket \in BucketNames, key \in Keys, x_api_key \in Headers,
       overwrite \in BOOLEAN, file \in Files :
        /\ Begin(p, Request("PUT", bucket, key, NoSig, EMPTY, EMPTY, x_api_key,
                            overwrite, file))
        /\ UNCHANGED <<client, url, aresp>>

\* A client sends DELETE /buckets/{bucket}/objects/{key}.
StartDelete(p) ==
    \E bucket \in BucketNames, key \in Keys, x_api_key \in Headers :
        /\ Begin(p, Request("DELETE", bucket, key, NoSig, EMPTY, EMPTY, x_api_key,
                            TRUE, NoFile))
        /\ UNCHANGED <<client, url, aresp>>

\* A client sends POST /buckets with a name.
StartCreate(p) ==
    \E bucket \in BucketNames, x_api_key \in Headers :
        /\ Begin(p, [Request("POST", bucket, EMPTY, NoSig, EMPTY, EMPTY, x_api_key,
                             TRUE, NoFile) EXCEPT !.path = <<SLASH, "buckets">>])
        /\ UNCHANGED <<client, url, aresp>>

\* A client sends GET /buckets/{bucket}/objects/{key}.
StartDownload(p) ==
    \E bucket \in BucketNames, key \in Keys, x_api_key \in Headers :
        /\ Begin(p, Request("GET", bucket, key, NoSig, EMPTY, EMPTY, x_api_key,
                            TRUE, NoFile))
        /\ UNCHANGED <<client, url, aresp>>

\* A client sends HEAD /buckets/{bucket}/objects/{key}.
StartHead(p) ==
    \E bucket \in BucketNames, key \in Keys, x_api_key \in Headers :
        /\ Begin(p, Request("HEAD", bucket, key, NoSig, EMPTY, EMPTY, x_api_key,
                            TRUE, NoFile))
        /\ UNCHANGED <<client, url, aresp>>

Init ==
    /\ boot = Booted
    /\ env \in {e \in Envs : e.PRESIGN_SECRET # NOT_SET}
    /\ now = 0
    /\ buckets = {}
    /\ objects = <<>>
    /\ blobs = <<>>
    /\ rq = [p \in Slots |-> Idle]
    /\ orm = [p \in Slots |-> "none"]
    /\ client = NoClient
    /\ url = NoUrl
    /\ aresp = Answer(NoResp, -1)

Next ==
    \E p \in Slots :
        \/ StartUpload(p)
        \/ StartDelete(p)
        \/ StartCreate(p)
        \/ UploadQuery(p)
        \/ UploadWrite(p)
        \/ UploadCommit(p)
        \/ DeleteQuery(p)
        \/ DeleteBlob(p)
        \/ DeleteCommit(p)
        \/ CreateBucket(p)

Spec == Init /\ [][Next]_vars

-----------------------------------------------------------------------------
(* SeqSpec: the same clients, one request at a time *)

Sequential == \A q \in Slots : ~Running(q)

SeqStartUpload(p) == Sequential /\ StartUpload(p)
SeqStartDelete(p) == Sequential /\ StartDelete(p)
SeqStartCreate(p) == Sequential /\ StartCreate(p)
SeqStartDownload(p) == Sequential /\ StartDownload(p)
SeqStartHead(p) == Sequential /\ StartHead(p)

SeqNext ==
    \E p \in Slots :
        \/ SeqStartUpload(p)
        \/ SeqStartDelete(p)
        \/ SeqStartCreate(p)
        \/ SeqStartDownload(p)
        \/ SeqStartHead(p)
        \/ UploadQuery(p)
        \/ UploadWrite(p)
        \/ UploadCommit(p)
        \/ DeleteQuery(p)
        \/ DeleteBlob(p)
        \/ DeleteCommit(p)
        \/ DownloadQuery(p)
        \/ DownloadRead(p)
        \/ HeadObject(p)
        \/ CreateBucket(p)

SeqSpec == Init /\ [][SeqNext]_vars

-----------------------------------------------------------------------------
(* Properties of the storage handlers *)

Locator(inv) == object_locator(inv.bucket, inv.key)

\* Slot p takes this step.
StepOf(p) == rq'[p] # rq[p]

\* C1: every metadata row has a blob in the backend at its locator, in every
\* reachable state of concurrent uploads and deletes with failing backend steps.
C1_MetadataHasBlob ==
    \A pr \in DOMAIN objects : object_locator(pr[1], pr[2]) \in DOMAIN blobs

\* C2: a step of an upload changes the metadata rows only after its blob write
\* has succeeded, and the step in which the blob write fails ends the request
\* and leaves every row as it was.
C2_MetadataOnlyAfterBlobWrite ==
    [][\A p \in Slots :
         (rq[p].kind = "PUT" /\ Running(p) /\ StepOf(p)) =>
            /\ objects' # objects => rq[p].wrote /\ rq[p].pc = "commit"
            /\ rq'[p].detail = "blob write failed" =>
                  /\ objects' = objects
                  /\ rq'[p].pc = "done" /\ rq'[p].status = 500
                  /\ ~rq'[p].wrote]_vars

C2_Witness ==
    \E p \in Slots :
        /\ rq[p].kind = "PUT" /\ rq[p].detail = "blob write failed"
        /\ Pair(rq[p]) \in DOMAIN objects

\* C7: when the blob delete of a delete request fails, the request ends in
\* error in that step and no row is deleted or changed; the row the request
\* loaded, if no other request has deleted it, is still there.  A delete
\* request removes a row only after its blob delete has succeeded.
C7_BlobDeleteFailureKeepsRow ==
    [][\A p \in Slots :
         (rq[p].kind = "DELETE" /\ Running(p) /\ StepOf(p)) =>
            /\ objects' # objects => rq[p].wrote /\ rq[p].pc = "commit"
            /\ rq'[p].detail = "blob delete failed" =>
                  /\ objects' = objects
                  /\ rq'[p].pc = "done" /\ rq'[p].status = 500
                  /\ orm[p] = "persistent" => Pair(rq[p]) \in DOMAIN objects']_vars

C7_Witness ==
    \E p \in Slots :
        /\ rq[p].kind = "DELETE" /\ rq[p].detail = "blob delete failed"
        /\ orm[p] = "persistent" /\ Pair(rq[p]) \in DOMAIN objects

\* C8: the step that ends a delete request on an object it found, whatever
\* backend step failed, with no other request running, never leaves the row
\* present and the blob absent.
C8_DeleteEndsConsistent ==
    [][\A p \in Slots :
         (rq[p].kind = "DELETE" /\ rq[p].pc \in {"blob", "commit"} /\ rq'[p].pc = "done"
            /\ \A q \in Slots \ {p} : ~Running(q)) =>
            ~(Pair(rq[p]) \in DOMAIN objects' /\ Locator(rq[p]) \notin DOMAIN blobs')]_vars

\* C9: an upload with overwrite=false whose lookup finds a row of its key
\* ends with 409 in that step, has written nothing, and the step changes
\* neither the blobs nor the rows; 409 is answered in no other case.
C9_NoOverwriteConflict ==
    [][\A p \in Slots :
         (rq[p].kind = "PUT" /\ rq[p].pc = "query" /\ StepOf(p)) =>
            LET conflict == rq[p].bucket \in buckets /\ Pair(rq[p]) \in DOMAIN objects
                            /\ ~rq[p].overwrite
            IN  /\ conflict <=> rq'[p].status = 409
                /\ conflict => /\ rq'[p].pc = "done" /\ ~rq'[p].wrote
                               /\ blobs' = blobs /\ objects' = objects]_vars

C9_Witness ==
    \E p \in Slots :
        /\ rq[p].kind = "PUT" /\ rq[p].status = 409
        /\ Pair(rq[p]) \in DOMAIN objects /\ Locator(rq[p]) \in DOMAIN blobs

\* C10: two distinct (bucket, key) pairs that have metadata rows have distinct
\* blob locators.
C10_LocatorInjective ==
    \A a \in DOMAIN objects, b \in DOMAIN objects :
        a # b => object_locator(a[1], a[2]) # object_locator(b[1], b[2])

\* C13: the step that ends an upload with success stores a row whose size is
\* the number of bytes of the payload and whose checksum is the digest of the
\* whole payload, and the read loop gives that size and digest whatever sizes
\* the chunks have.  A GET or HEAD that ends with success carries the checksum
\* of the row of its key as ETag and as X-Checksum-Sha256 and its size as
\* Content-Length.  A row changes only in the commit step of an upload or a
\* delete of its key, so that with no write in between the row is the one the
\* upload stored.
C13_SizeAndChecksum ==
    [][/\ \A p \in Slots :
            /\ (rq[p].kind = "PUT" /\ rq[p].pc = "commit" /\ rq'[p].status = 200) =>
                  LET bytes == rq[p].file.bytes
                      row == objects'[Pair(rq[p])]
                  IN  /\ row.size = Len(bytes)
                      /\ row.checksum_sha256 = hexdigest(bytes)
                      /\ \A reads \in ReadSchedules(bytes) :
                            LET st == ReadLoop(reads, NewStream, bytes)
                            IN  /\ st.size = row.size
                                /\ hexdigest(st.sha) = row.checksum_sha256
            /\ (rq[p].kind \in {"GET", "HEAD"} /\ StepOf(p) /\ rq'[p].status = 200) =>
                  LET row == objects[Pair(rq[p])]
                  IN  /\ rq'[p].headers.ETag = row.checksum_sha256
                      /\ rq'[p].headers.X_Checksum_Sha256 = row.checksum_sha256
                      /\ rq'[p].headers.Content_Length = IntToStr(row.size)
       /\ \A pr \in DOMAIN objects :
            (pr \notin DOMAIN objects' \/ objects'[pr] # objects[pr]) =>
                \E q \in Slots : /\ rq[q].kind \in {"PUT", "DELETE"} /\ rq[q].pc = "commit"
                                 /\ StepOf(q) /\ Pair(rq[q]) = pr]_vars

\* An upload of the three-byte file, read in two chunks, has ended with
\* success, and after it a GET and a HEAD of its key have, with the digest of
\* the three bytes and the length 3 in their headers.
C13_Witness ==
    \E p \in Slots, q \in Slots :
        /\ rq[p].kind = "HEAD" /\ rq[p].status = 200
        /\ rq[q].kind = "GET" /\ rq[q].status = 200 /\ Pair(rq[q]) = Pair(rq[p])
        /\ rq[p].headers = rq[q].headers
        /\ rq[p].headers.ETag = hexdigest(<<1, 2, 3>>)
        /\ rq[p].headers.Content_Length = <<"3">>
        /\ objects[Pair(rq[p])].size = 3

\* C14: a delete of a key that has no row in a bucket that exists ends with
\* 404 in its first step, which changes no blob and no row.  The step that ends
\* a delete with success leaves no row of its key and no blob at its locator.
\* A GET or HEAD of a key that has no row ends with 404, and a row comes to be
\* only in the commit step of an upload of its key; so a GET or HEAD after a
\* successful delete, with no upload in between, ends with 404.
C14_DeleteThenNotFound ==
    [][/\ \A p \in Slots :
            /\ (rq[p].kind = "DELETE" /\ rq[p].pc = "query" /\ StepOf(p)
                   /\ rq[p].bucket \in buckets /\ Pair(rq[p]) \notin DOMAIN objects) =>
                  /\ rq'[p].pc = "done" /\ rq'[p].status = 404
                  /\ blobs' = blobs /\ objects' = objects /\ buckets' = buckets
            /\ (rq[p].kind = "DELETE" /\ StepOf(p) /\ rq'[p].status = 204) =>
                  /\ Pair(rq[p]) \notin DOMAIN objects'
                  /\ Locator(rq[p]) \notin DOMAIN blobs'
            /\ (rq[p].kind \in {"GET", "HEAD"} /\ rq[p].pc = "query" /\ StepOf(p)
                   /\ Pair(rq[p]) \notin DOMAIN objects) =>
                  rq'[p].pc = "done" /\ rq'[p].status = 404
       /\ \A pr \in DOMAIN objects' \ DOMAIN objects :
            \E q \in Slots : /\ rq[q].kind = "PUT" /\ rq[q].pc = "commit"
                             /\ StepOf(q) /\ Pair(rq[q]) = pr]_vars

\* A delete has ended with success and a GET of its key with 404; the key has
\* no row and no blob, while the other key still has its row.
C14_Witness ==
    \E p \in Slots, q \in Slots :
        /\ rq[p].kind = "DELETE" /\ rq[p].status = 204
        /\ rq[q].kind = "GET" /\ rq[q].status = 404 /\ rq[q].detail = "Object not found"
        /\ Pair(rq[q]) = Pair(rq[p])
        /\ Pair(rq[p]) \notin DOMAIN objects /\ Locator(rq[p]) \notin DOMAIN blobs
        /\ DOMAIN objects # {}

\* The request has ended rejected: by the authorizer, with 401 or with 500 for a
\* key or secret that is not configured, or with 404.
Rejected(inv) ==
    /\ inv.pc = "done"
    /\ \/ inv.status \in {401, 404}
       \/ /\ inv.status = 500
          /\ inv.detail \in {"S3LITE_API_KEY not configured", "PRESIGN_SECRET not configured"}

\* C15: the step in which a request arrives changes no blob, no object row and
\* no bucket row; a request ends rejected either in that step or in the first
\* step of its handler, and that step changes none of them either, so that the
\* request as a whole has changed nothing.
C15_RejectedChangesNothing ==
    [][\A p \in Slots :
         /\ (~Running(p) /\ StepOf(p)) =>
               blobs' = blobs /\ objects' = objects /\ buckets' = buckets
         /\ (StepOf(p) /\ Rejected(rq'[p])) =>
               /\ blobs' = blobs /\ objects' = objects /\ buckets' = buckets
               /\ ~rq'[p].wrote
               /\ Running(p) => rq[p].pc = "query"]_vars

\* A delete of a key that has no row has ended with 404 while the blob at its
\* locator, which belongs to the row of another key, is still there.
C15_Witness ==
    \E p \in Slots :
        /\ rq[p].kind = "DELETE" /\ Rejected(rq[p]) /\ rq[p].detail = "Object not found"
        /\ Locator(rq[p]) \in DOMAIN blobs
        /\ DOMAIN objects # {}

\* C16: an upload that found no row of its key and whose insert meets a row
\* of that key, committed by an overlapping upload, is answered 409.  (That the
\* pair has at most one row is the unique constraint of the table.)
C16_InsertConflictIs409 ==
    [][\A p \in Slots :
         (rq[p].kind = "PUT" /\ rq[p].pc = "commit" /\ StepOf(p)
            /\ orm[p] = "none" /\ Pair(rq[p]) \in DOMAIN objects) =>
                rq'[p].status = 409]_vars

-----------------------------------------------------------------------------
(* BucketSpec: concurrent create_bucket requests for two names *)

B2 == <<"bk2">>
CreateNames == {B1, B2}

\* A client sends POST /buckets with one of the names.
StartCreateNamed(p) ==
    \E bucket \in CreateNames, x_api_key \in Headers :
        /\ Begin(p, [Request("POST", bucket, EMPTY, NoSig, EMPTY, EMPTY, x_api_key,
                             TRUE, NoFile) EXCEPT !.path = <<SLASH, "buckets">>])
        /\ UNCHANGED <<client, url, aresp>>

BucketNext ==
    \E p \in Slots :
        \/ StartCreateNamed(p)
        \/ CreateBucket(p)

BucketSpec == Init /\ [][BucketNext]_vars

\* C11: the table holds each name at most once and a row, once there, stays as
\* it is.  A create_bucket request whose commit reaches the table is answered
\* 201 exactly when no row of its name is there, and the step adds that row and
\* no other; otherwise it is answered 409 and the step leaves the table as it
\* is.  So of the requests for one name one is answered 201 and every later one
\* 409, however the requests interleave.
C11_OneBucketPerName ==
    [][/\ buckets \subseteq buckets'
       /\ \A p \in Slots :
            (rq[p].kind = "POST" /\ rq[p].pc = "query" /\ StepOf(p)) =>
                LET name == rq[p].bucket
                    committed == rq'[p].detail # "db commit failed"
                IN  /\ rq'[p].pc = "done"
                    /\ committed =>
                          rq'[p].status = IF name \in buckets THEN 409 ELSE 201
                    /\ rq'[p].status = 201 =>
                          name \notin buckets /\ buckets' = buckets \cup {name}
                    /\ rq'[p].status # 201 => buckets' = buckets]_vars

\* Two requests for one name have ended, one with 201 and one with 409, and a
\* row of the other name is there too.
C11_Witness ==
    /\ rq["r1"].kind = "POST" /\ rq["r2"].kind = "POST"
    /\ rq["r1"].bucket = rq["r2"].bucket
    /\ rq["r1"].status = 201 /\ rq["r2"].status = 409
    /\ buckets = CreateNames

-----------------------------------------------------------------------------
(* AuthSpec: the authorizer applied to one request, at the instants of a clock *)

\* The instants at which the clock is read: 0, and the seconds from the
\* smallest expiry presign_object can grant at 0 up to MaxTime.
EXPIRES_IN_MIN == 10
Instants == {0} \cup (EXPIRES_IN_MIN .. MaxTime)

AllHeaders == {NoHeader, "", "key", "wrong"}

\* Values of the query parameter "expires".
ExpiresStrings ==
    {EMPTY, <<"x">>, <<"0">>, <<"1", "0">>, <<"1", "1">>, <<"+", "1", "0">>}

\* Values of the query parameter "sig" a client may present on a request for
\* (method, path): none, a digest under a guessed key, and digests under the
\* server's secret of this and of other tuples.
SigValues(method, path) ==
    {NoSig, HmacHex("guess", Message(method, path, 10, EMPTY))}
    \cup {HmacHex("secret", Message(method, path, e, c)) :
             e \in {0, 10, 11}, c \in {EMPTY, TextPlain}}
    \cup {HmacHex("secret", Message("DELETE", path, 10, EMPTY))}

AuthRequests ==
    UNION { { Request(method, B1, <<"x">>, sig, expires, ct, x_api_key, TRUE,
                      IF method = "PUT" THEN [bytes |-> <<7>>, content_type |-> ct] ELSE NoFile) :
                sig \in SigValues(method, ObjectPath(B1, <<"x">>)) } :
            method \in {"GET", "PUT"}, expires \in ExpiresStrings,
            ct \in {EMPTY, TextPlain, Json}, x_api_key \in AllHeaders }

AuthInit ==
    /\ boot = Booted
    /\ env \in Envs
    /\ now = 0
    /\ buckets = {B1}
    /\ objects = <<>>
    /\ blobs = <<>>
    /\ rq = [p \in Slots |-> Idle]
    /\ orm = [p \in Slots |-> "none"]
    /\ client \in AuthRequests
    /\ url = NoUrl
    /\ aresp = Answer(NoResp, -1)

\* Time passes.
Tick ==
    /\ \E t \in Instants : t > now /\ now' = t
    /\ UNCHANGED <<boot, env, buckets, objects, blobs, rq, orm, client, url, aresp>>

\* The client sends its request; FastAPI resolves the dependency authorize.
Authorize ==
    /\ aresp' = Answer(authorize(client, now), now)
    /\ UNCHANGED <<boot, env, now, buckets, objects, blobs, rq, orm, client, url>>

AuthNext == Tick \/ Authorize

AuthSpec == AuthInit /\ [][AuthNext]_vars

-----------------------------------------------------------------------------
(* Properties of the authorizer *)

Answered == aresp.status # 0
Accepted == aresp.status = 200

\* The presigned check of the specification: the secret is configured, expires
\* is an integer not in the past, and sig is the HMAC of the request's tuple.
PresignPasses(r, time) ==
    /\ PRESIGN_SECRET # NOT_SET
    /\ ParseInt(r.expires).ok
    /\ time <= ParseInt(r.expires).val
    /\ r.sig = HmacHex(PRESIGN_SECRET,
                       Message(r.method, r.path, ParseInt(r.expires).val, r.ct))

\* C3: a request with non-empty sig and expires is accepted exactly when the
\* presigned check passes, whatever its API key header is; any other request is
\* accepted exactly when a key is configured (API_KEY is not empty) and the
\* header equals it.
C3_DecisionRule ==
    Answered =>
        IF client.sig.hex /\ client.expires # EMPTY
        THEN /\ Accepted <=> PresignPasses(client, aresp.at)
             /\ \A h \in AllHeaders :
                  authorize([client EXCEPT !.x_api_key = h], aresp.at)
                    = [status |-> aresp.status, detail |-> aresp.detail]
        ELSE Accepted <=> (API_KEY # NOT_SET /\ client.x_api_key = API_KEY)

\* A presigned request accepted without the API key header.
C3_Witness ==
    /\ client.sig.hex /\ client.expires # EMPTY
    /\ API_KEY # NOT_SET
    /\ Accepted /\ client.x_api_key = NoHeader

ExpiresVal == ParseInt(client.expires).val
HasExpiry == client.sig.hex /\ client.expires # EMPTY /\ ParseInt(client.expires).ok

\* C5 as stated: a presigned request whose expires is smaller than the time
\* it is checked at is answered 401.
C5_ExpiredIs401 ==
    (Answered /\ HasExpiry /\ ExpiresVal < aresp.at) => aresp.status = 401

\* C5: a presigned request whose expires is smaller than the time it is
\* checked at is rejected whatever its signature: with 401 when the presign
\* secret is configured, with 500 when it is not.  At now = expires it is not
\* rejected as expired.  Once a request has been rejected as expired, every
\* later check of it rejects it as expired.
C5_Expiry ==
    /\ [](Answered /\ HasExpiry =>
            /\ ExpiresVal < aresp.at =>
                 aresp.status = IF PRESIGN_SECRET # NOT_SET THEN 401 ELSE 500
            /\ ExpiresVal = aresp.at => aresp.detail # "Presigned URL expired")
    /\ [][(aresp.detail = "Presigned URL expired" /\ aresp' # aresp) =>
            (aresp'.status = 401 /\ aresp'.detail = "Presigned URL expired")]_vars

\* An expired request that carries the signature issued for its own tuple.
C5_Witness ==
    /\ HasExpiry /\ ExpiresVal < aresp.at
    /\ client.sig = HmacHex(PRESIGN_SECRET, Message(client.method, client.path, ExpiresVal, client.ct))
    /\ aresp.status = 401 /\ aresp.detail = "Presigned URL expired"

\* C12: with the presign secret not configured, a request that carries sig
\* and expires is answered 500; with the API key not configured, every other
\* request is answered 500, whatever its key header is, absent and empty
\* included.
C12_FailClosed ==
    Answered =>
        /\ (IsPresigned(client) /\ PRESIGN_SECRET = NOT_SET) =>
                aresp.status = 500 /\ aresp.detail = "PRESIGN_SECRET not configured"
        /\ (~IsPresigned(client) /\ API_KEY = NOT_SET) =>
                aresp.status = 500 /\ aresp.detail = "S3LITE_API_KEY not configured"

\* No key is configured and the request, with an empty key header and without
\* sig, has been answered 500.
C12_Witness ==
    /\ API_KEY = NOT_SET /\ ~IsPresigned(client) /\ client.x_api_key = ""
    /\ aresp.status = 500

-----------------------------------------------------------------------------
(* PresignSpec: a client asks presign_object for a URL and then uses it, as   *)
(* minted or altered, on a request of its own                                 *)

P1 == "r1"
KeyX == <<"x">>

\* f"/buckets/{bucket_name}/objects/{object_key}/presign"
PresignPath(bucket_name, object_key) ==
    ObjectPath(bucket_name, object_key) \o <<SLASH, "presign">>

\* schemas.py PresignRequest: what pydantic admits.
EXPIRES_IN_MAX == 86400

\* PresignRequest without the pattern on method.
ValidPresignRequest_AnyMethod(payload) ==
    /\ payload.expires_in >= EXPIRES_IN_MIN /\ payload.expires_in <= EXPIRES_IN_MAX

ValidPresignRequest(payload) ==
    /\ payload.method \in {"GET", "PUT"}
    /\ payload.expires_in >= EXPIRES_IN_MIN /\ payload.expires_in <= EXPIRES_IN_MAX

\* main.py presign_object, for a request r on the presign route with body
\* payload: the answer, with the query parameters of the URL it holds.
presign_object(r, payload, time) ==
    LET a == authorize(r, time)
        path == ObjectPath(r.bucket, r.key)
        expires == time + payload.expires_in
        ct == payload.content_type
        sig == _presign_sig(payload.method, path, expires, ct)
    IN  IF a # OK THEN [NoUrl EXCEPT !.status = a.status]
        ELSE IF ~ValidPresignRequest(payload) THEN [NoUrl EXCEPT !.status = 422]
        ELSE IF main_PRESIGN_SECRET = NOT_SET THEN [NoUrl EXCEPT !.status = 500]
        ELSE IF r.bucket \notin buckets THEN [NoUrl EXCEPT !.status = 404]
        ELSE [status |-> 200, method |-> payload.method, path |-> path,
              expires |-> IntToStr(expires), sig |-> sig, ct |-> ct]

\* What the client asks for, and how it uses the URL it gets: the method and
\* the route of its request, where sig and expires come from, the ct parameter
\* and the content type of the file it uploads.
Asks == [method : {"GET", "PUT", "DELETE"}, expires_in : {10, 11},
         content_type : {EMPTY, TextPlain}]
Uses ==
    [method : {"GET"}, route : {"object"},
     sig : {"url", "next", "guess"}, expires : {"url", "next"},
     ct : {EMPTY, TextPlain, Json}, file_ct : {EMPTY}]
    \cup
    [method : {"PUT"}, route : {"object"},
     sig : {"url", "next", "guess"}, expires : {"url", "next"},
     ct : {EMPTY, TextPlain, Json}, file_ct : {EMPTY, TextPlain, Json}]
    \cup
    [method : {"DELETE", "HEAD"}, route : {"object"},
     sig : {"url", "next", "guess"}, expires : {"url", "next"},
     ct : {EMPTY, TextPlain, Json}, file_ct : {EMPTY}]
    \cup
    [method : {"POST"}, route : {"presign", "buckets"},
     sig : {"url", "next", "guess"}, expires : {"url"},
     ct : {EMPTY, TextPlain}, file_ct : {EMPTY}]

\* The path of a route: the object routes, the presign route, POST /buckets.
RoutePath(route) ==
    CASE route = "presign" -> PresignPath(B1, KeyX)
      [] route = "buckets" -> <<SLASH, "buckets">>
      [] OTHER -> ObjectPath(B1, KeyX)

UrlExpires == ParseInt(url.expires).val

\* The request the client makes of the URL: "next" stands for the value of a URL
\* minted one second later, "guess" for a digest under a guessed key.
UsedRequest(use) ==
    LET path == ObjectPath(B1, KeyX)
        e == IF use.expires = "url" THEN UrlExpires ELSE UrlExpires + 1
        sig == CASE use.sig = "url" -> url.sig
                 [] use.sig = "next" ->
                        HmacHex("secret", Message(url.method, path, UrlExpires + 1, url.ct))
                 [] OTHER -> HmacHex("guess", Message(use.method, RoutePath(use.route), e, use.ct))
    IN  [Request(use.method, B1, KeyX, sig, IntToStr(e), use.ct, NoHeader, TRUE,
                 IF use.method = "PUT"
                    THEN [bytes |-> <<7>>, content_type |-> use.file_ct] ELSE NoFile)
            EXCEPT !.path = RoutePath(use.route)]

\* The object the store holds when the client starts.
SeedRow ==
    [size |-> 3, checksum_sha256 |-> hexdigest(<<1, 2, 3>>), content_type |-> TextPlain]

PresignInit ==
    /\ boot = Booted
    /\ env \in Envs
    /\ now = 0
    /\ buckets = {B1}
    /\ objects = (<<B1, KeyX>> :> SeedRow)
    /\ blobs = (object_locator(B1, KeyX) :> <<1, 2, 3>>)
    /\ rq = [p \in Slots |-> Idle]
    /\ orm = [p \in Slots |-> "none"]
    /\ client \in [ask : Asks, use : Uses]
    /\ url = NoUrl
    /\ aresp = Answer(NoResp, -1)

\* The client, holding the API key, sends POST .../presign.
PresignObject ==
    /\ url = NoUrl
    /\ url' = presign_object(
                [Request("POST", B1, KeyX, NoSig, EMPTY, EMPTY, "key", TRUE, NoFile)
                    EXCEPT !.path = PresignPath(B1, KeyX)],
                client.ask, now)
    /\ UNCHANGED <<boot, env, now, buckets, objects, blobs, rq, orm, client, aresp>>

\* The client, holding no key, sends its request with the parameters of the URL.
Present ==
    /\ url.status = 200
    /\ Begin(P1, UsedRequest(client.use))
    /\ aresp' = Answer(authorize(UsedRequest(client.use), now), now)
    /\ UNCHANGED <<client, url>>

PresignNext ==
    \/ Tick
    \/ PresignObject
    \/ Present
    \/ UploadQuery(P1)
    \/ UploadWrite(P1)
    \/ UploadCommit(P1)
    \/ DownloadQuery(P1)
    \/ DownloadRead(P1)

PresignSpec == PresignInit /\ [][PresignNext]_vars

-----------------------------------------------------------------------------
(* Properties of presigned URLs *)

\* The step in which the client's request arrives.
Presented == ~Running(P1) /\ rq'[P1] # rq[P1]

\* The request carries sig and expires as minted.
UsesMinted == client.use.sig = "url" /\ client.use.expires = "url"

C6_ContentTypeBound ==
    [][(Presented /\ url.ct # EMPTY /\ client.use.method = "PUT" /\ UsesMinted) =>
         LET match == /\ url.method = "PUT"
                      /\ client.use.ct = url.ct
                      /\ client.use.file_ct = url.ct
         IN  /\ (match /\ now <= UrlExpires) => rq'[P1].pc = "query"
             /\ ~match => /\ rq'[P1].pc = "done" /\ rq'[P1].status = 401
                          /\ blobs' = blobs /\ objects' = objects]_vars

\* An upload of another content type than the URL was minted for, rejected
\* although the ct parameter is as minted.
C6_Witness ==
    /\ url.status = 200 /\ url.method = "PUT" /\ url.ct = TextPlain
    /\ client.use.method = "PUT" /\ UsesMinted
    /\ client.use.ct = TextPlain /\ client.use.file_ct = Json
    /\ rq[P1].kind = "PUT" /\ rq[P1].status = 401
    /\ rq[P1].detail = "Content-Type mismatch for presigned URL"
    /\ aresp.status = 200

\* C20: a minted URL is signed for GET or PUT on the object path it was asked
\* for.  A request of a client that holds no API key, with the parameters of a
\* minted URL or changed ones, is rejected by the authorizer when it is a
\* DELETE, a HEAD or a POST (bucket creation, presign).  The step that mints a
\* URL changes no bucket row, no object row and no blob.
C20_GrantsDoNotAmplify ==
    /\ [](url.status = 200 =>
            /\ url.method \in {"GET", "PUT"}
            /\ url.path = ObjectPath(B1, KeyX)
            /\ url.sig = HmacHex(PRESIGN_SECRET,
                                 Message(url.method, url.path, UrlExpires, url.ct)))
    /\ [][/\ (Presented /\ client.use.method \notin {"GET", "PUT"}) =>
                /\ rq'[P1].pc = "done" /\ rq'[P1].status = 401
                /\ aresp'.status = 401
          /\ url' # url =>
                buckets' = buckets /\ objects' = objects /\ blobs' = blobs]_vars

\* A DELETE with the sig and expires of a minted URL, not expired, has been
\* rejected.
C20_Witness ==
    /\ url.status = 200
    /\ client.use.method = "DELETE" /\ UsesMinted /\ client.use.ct = url.ct
    /\ rq[P1].kind = "DELETE" /\ rq[P1].status = 401
    /\ aresp.at <= UrlExpires

\* C17: a presigned request that arrives is rejected for the first check it
\* fails in the order: expired, content type of the upload differing from the
\* signed ct, signature mismatch.  (Its sig and expires are there and expires
\* is an integer.)
C17_FirstFailingCheck ==
    [][Presented =>
         LET r == UsedRequest(client.use)
             e == ParseInt(r.expires).val
             first ==
                IF now > e THEN "Presigned URL expired"
                ELSE IF r.method = "PUT" /\ r.ct # EMPTY /\ r.file.content_type # r.ct
                    THEN "Content-Type mismatch for presigned URL"
                ELSE IF r.sig # _sign(r.method, r.path, e, r.ct)
                    THEN "Invalid signature"
                ELSE "ok"
         IN  first # "ok" => rq'[P1].status = 401 /\ rq'[P1].detail = first]_vars

-----------------------------------------------------------------------------
(* SignSpec: a signature is made for one tuple and presented with another *)

\* Paths and content types, some of them holding a newline.
SignPaths == {<<SLASH, "a">>, <<SLASH, "a", NL, "5">>}
SignCts == {EMPTY, <<"7">>, <<"7", NL>>}
SignTuples == [method : {"GET", "PUT", "get"}, path : SignPaths, expires : {5, 7},
               ct : SignCts]

SignInit ==
    /\ boot = Booted
    /\ env \in {e \in Envs : e.PRESIGN_SECRET # NOT_SET}
    /\ now = 0
    /\ buckets = {B1}
    /\ objects = <<>>
    /\ blobs = <<>>
    /\ rq = [p \in Slots |-> Idle]
    /\ orm = [p \in Slots |-> "none"]
    /\ client \in [signed : SignTuples, presented : SignTuples]
    /\ url = NoUrl
    /\ aresp = Answer(NoResp, -1)

\* presign_object lines 67-73 for the tuple client.signed.
MintSigned ==
    LET t == client.signed
    IN  /\ url = NoUrl
        /\ url' = [status |-> 200, method |-> t.method, path |-> t.path,
                   expires |-> IntToStr(t.expires),
                   sig |-> _presign_sig(t.method, t.path, t.expires, t.ct), ct |-> t.ct]
        /\ UNCHANGED <<boot, env, now, buckets, objects, blobs, rq, orm, client, aresp>>

\* The request of the tuple client.presented, carrying the signature minted.
PresentedRequest ==
    LET t == client.presented
    IN  [method |-> t.method, path |-> t.path, sig |-> url.sig,
         expires |-> IntToStr(t.expires), ct |-> t.ct, x_api_key |-> NoHeader]

\* authorize on that request.
VerifyPresented ==
    /\ url.status = 200
    /\ aresp' = Answer(authorize(PresentedRequest, now), now)
    /\ UNCHANGED <<boot, env, now, buckets, objects, blobs, rq, orm, client, url>>

SignNext == MintSigned \/ VerifyPresented

SignSpec == SignInit /\ [][SignNext]_vars

\* C18: a signature minted for one tuple is accepted only on a request of that
\* tuple: same method after upper-casing, same path, same expires and same
\* content type, also when paths and content types hold newlines.
C18_SignatureBindsTuple ==
    Accepted =>
        /\ Upper(client.presented.method) = Upper(client.signed.method)
        /\ client.presented.path = client.signed.path
        /\ client.presented.expires = client.signed.expires
        /\ client.presented.ct = client.signed.ct

-----------------------------------------------------------------------------
(* StartupSpec: the process starts up and then takes requests *)

StartupInit ==
    /\ boot = Launched
    /\ env \in Envs
    /\ now = 0
    /\ buckets = {}
    /\ objects = <<>>
    /\ blobs = <<>>
    /\ rq = [p \in Slots |-> Idle]
    /\ orm = [p \in Slots |-> "none"]
    /\ client = NoClient
    /\ url = NoUrl
    /\ aresp = Answer(NoResp, -1)

\* The steps of startup().
StartupStep == ProbeDb \/ CreateAll \/ S3Client \/ ProbeS3 \/ EnsureBucketExists

StartupNext ==
    \/ ProbeDb
    \/ CreateAll
    \/ S3Client
    \/ ProbeS3
    \/ EnsureBucketExists
    \/ StartHead(P1)
    \/ HeadObject(P1)

\* startup() is sequential code: each call returns or raises, each sleep ends.
StartupSpec == StartupInit /\ [][StartupNext]_vars /\ WF_vars(StartupStep)

Stopped == boot.pc \in {"accepting", "aborted"}

\* C19: startup ends, taking requests or aborted.  It makes at most
\* DB_MAX_ATTEMPTS probes of the metadata store and at most S3_MAX_ATTEMPTS of
\* the blob backend, the latter only after a probe of the former has succeeded.
\* It aborts in the turn in which the last of that many probes of one backend
\* has failed.  It takes requests, and a request arrives, only after one probe
\* of each has succeeded.
C19_StartupTerminates ==
    /\ <>Stopped
    /\ [](/\ boot.db_probes <= DB_MAX_ATTEMPTS /\ boot.s3_probes <= S3_MAX_ATTEMPTS
          /\ boot.s3_probes > 0 => boot.db_ok
          /\ boot.pc = "accepting" => boot.db_ok /\ boot.s3_ok
          /\ rq[P1].pc # "idle" => boot.pc = "accepting" /\ boot.db_ok /\ boot.s3_ok)
    /\ [][/\ (boot'.db_probes = DB_MAX_ATTEMPTS /\ ~boot'.db_ok) => boot'.pc = "aborted"
          /\ (boot'.s3_probes = S3_MAX_ATTEMPTS /\ ~boot'.s3_ok) => boot'.pc = "aborted"
          /\ (boot'.pc = "aborted" /\ boot.pc = "wait_for_db") =>
                boot'.db_probes = DB_MAX_ATTEMPTS
          /\ (boot'.pc = "aborted" /\ boot.pc = "wait_for_s3") =>
                boot'.s3_probes = S3_MAX_ATTEMPTS]_vars

\* The server takes a request after the last allowed probe of each backend was
\* the one that succeeded.
C19_Witness ==
    /\ boot.pc = "accepting"
    /\ boot.db_probes = DB_MAX_ATTEMPTS /\ boot.s3_probes = S3_MAX_ATTEMPTS
    /\ rq[P1].pc = "done"

====
